---- MODULE Spec2Model ----
\* Model of the Matchmaker coordinator of vimsent/L3 (matchmaker/main.go, held in
\* src/gameserver/Dockerfile from line 159 on): its tables, its RPC handlers, the
\* pairing loop with the heartbeat sweep, and the dispatch goroutines.
\*
\* Handlers that hold m.mu for their whole body are one action each.  The
\* heartbeat sweep (detectServerTimeouts) takes no lock, so its reads and writes
\* interleave with the handlers; it is modelled one memory access group at a time.
EXTENDS Integers, Sequences, FiniteSets, Bags, TLC

\* ------------------------------------------------------------------ bounds

\* cap on the Matchmaker's own clock component, and the players that arrive, under Spec
MaxClock == 9
MaxPlayers == 4
\* the same two under SpecTime, where the wall clock advances
MaxClockTime == 5
MaxPlayersTime == 2
\* under SpecRetry: the cap on the clock that the handlers called from outside
\* respect (the pairing loop and the dispatches are never held back), and the
\* players that arrive
MaxClockRetry == 6
MaxPlayersRetry == 3
\* the clock cap and the players under SpecPairs, which has only the pairing
\* path and so goes deeper
MaxClockPairs == 12
MaxPlayersPairs == 4
\* Widths of the integer types, scaled down so that the values that do not fit
\* are small numbers: WireBits stands for the 32 bits of the int32 counters of
\* pb.VectorClock, IntBits for the 64 bits of int and int64.  The counters of
\* the Matchmaker specifications stay below 2^(WireBits - 1).
WireBits == 6
IntBits == 8
\* cap on the wall clock, in seconds
MaxTime == 31
\* the largest counter of the sample clocks under SpecVectors
MaxCounter == 2
\* the clock cap and the players under SpecServers, where the Game Server
\* processes run next to the Matchmaker
MaxClockServers == 8
MaxPlayersServers == 2

\* ------------------------------------------------------- program constants

\* serverHeartbeatTimeout, in seconds
serverHeartbeatTimeout == 30

selfID == "Matchmaker"

playerIdle == "Idle"
playerInQueue == "InQueue"
playerInMatch == "InMatch"

serverUnknown == "Unknown"
serverAvailable == "Available"
serverBusy == "Busy"
serverDown == "Down"

\* ------------------------------------------------------------- input sets

PlayerOrder == <<"p1", "p2", "p3", "p4", "p5", "p6">>
ServerIds == {"G1", "G2"}
\* the values rand.Int31() can format to; small, so both a fresh and a repeated
\* draw happen
MatchIds == {"M1", "M2"}
Addresses == {"addr1"}
\* wire values of ServerStatusUpdateRequest.NewStatus; OTHER is any value the
\* switch has no case for
WireStatuses == {"AVAILABLE", "BUSY", "DOWN", "OTHER"}
\* wire values of AdminServerUpdateRequest.NewStatus
ForcedStatuses == {"FORCE_AVAILABLE", "FORCE_DOWN", "OTHER"}
\* seconds the wall clock may jump between two steps
Deltas == {30, 31}

EmptyMap == <<>>

\* clocks carried by requests: none, and one that is ahead of a fresh Matchmaker
\* in its own component and names a node the Matchmaker has not heard of
ReqClocks == {EmptyMap, ("Matchmaker" :> 2 @@ "Player7" :> 1)}

\* ------------------------------------------------------------ vector clock

\* vc[id] of a Go map: the zero value when the key is absent
Get(c, id) == IF id \in DOMAIN c THEN c[id] ELSE 0

clone(c) == [k \in DOMAIN c |-> c[k]]

increment(c, id) == [k \in DOMAIN c \cup {id} |-> IF k = id THEN Get(c, id) + 1 ELSE c[k]]

merge(c, other) ==
    [k \in DOMAIN c \cup DOMAIN other |->
        IF k \in DOMAIN other /\ (k \notin DOMAIN c \/ other[k] > c[k])
        THEN other[k] ELSE c[k]]

\* the low bits of v, read as a signed number of that many bits
truncSigned(v, bits) ==
    LET r == v % (2 ^ bits)
    IN IF r >= 2 ^ (bits - 1) THEN r - 2 ^ bits ELSE r

\* int32(v), at the scaled width
Int32(v) == truncSigned(v, WireBits)

toProto(c) == [k \in DOMAIN c |-> Int32(c[k])]

vcFromProto(p) == [k \in DOMAIN p |-> p[k]]

\* ------------------------------------------ clocks.Vector, the string form
\* Strings are sequences of one-character strings.

DigitChars == <<"0", "1", "2", "3", "4", "5", "6", "7", "8", "9">>

\* fmt.Sprintf("%d", n) for n >= 0
RECURSIVE formatDigits(_)
formatDigits(n) ==
    IF n < 10 THEN <<DigitChars[n + 1]>>
    ELSE formatDigits(n \div 10) \o <<DigitChars[(n % 10) + 1]>>

\* fmt.Sprintf("%d", n)
formatInt(n) == IF n < 0 THEN <<"-">> \o formatDigits(-n) ELSE formatDigits(n)

\* the value of a run of decimal digits read left to right from acc, or -1
\* when a character is not a digit
RECURSIVE parseDigits(_, _)
parseDigits(str, acc) ==
    IF str = <<>> THEN acc
    ELSE IF \E d \in 1..10 : DigitChars[d] = Head(str)
         THEN parseDigits(Tail(str),
                          acc * 10 + (CHOOSE d \in 1..10 : DigitChars[d] = Head(str)) - 1)
         ELSE -1

\* strconv.ParseInt(str, 10, 64): an optional sign, then digits only, and a
\* value that fits the width
ParseInt(str) ==
    LET neg == str # <<>> /\ Head(str) = "-"
        body == IF str # <<>> /\ Head(str) \in {"-", "+"} THEN Tail(str) ELSE str
        mag == IF body = <<>> THEN -1 ELSE parseDigits(body, 0)
        val == IF neg THEN -mag ELSE mag
    IN IF mag < 0 \/ val > 2 ^ (IntBits - 1) - 1 \/ val < -(2 ^ (IntBits - 1))
       THEN [err |-> TRUE, val |-> 0]
       ELSE [err |-> FALSE, val |-> val]

\* the position of the first sep in str, or 0
firstIndex(str, sep) ==
    IF \E i \in 1..Len(str) : str[i] = sep
    THEN CHOOSE i \in 1..Len(str) : str[i] = sep /\ \A j \in 1..(i - 1) : str[j] # sep
    ELSE 0

\* strings.Split(str, sep) for a one-character sep
RECURSIVE Split(_, _)
Split(str, sep) ==
    LET i == firstIndex(str, sep)
    IN IF i = 0 THEN <<str>>
       ELSE <<SubSeq(str, 1, i - 1)>> \o Split(SubSeq(str, i + 1, Len(str)), sep)

\* strings.Join(parts, sep)
RECURSIVE Join(_, _)
Join(parts, sep) ==
    IF parts = <<>> THEN <<>>
    ELSE IF Len(parts) = 1 THEN parts[1]
    ELSE parts[1] \o <<sep>> \o Join(Tail(parts), sep)

\* the orders in which a range over the map can visit its keys
KeyOrders(c) ==
    {o \in [1..Cardinality(DOMAIN c) -> DOMAIN c] :
        \A i, j \in 1..Cardinality(DOMAIN c) : i # j => o[i] # o[j]}

\* Vector.String(), for the order the range over v.clock takes
String(c, order) ==
    Join([i \in 1..Len(order) |-> order[i] \o <<"=">> \o formatInt(c[order[i]])], ",")

\* the loop of FromString over the components kvs, from the clock acc: it
\* stops at the first bad component and keeps what it wrote before
RECURSIVE fromComponents(_, _)
fromComponents(kvs, acc) ==
    IF kvs = <<>> THEN [err |-> FALSE, clock |-> acc]
    ELSE LET kv == Head(kvs)
             i == firstIndex(kv, "=")
             val == ParseInt(SubSeq(kv, i + 1, Len(kv)))
         IN IF i = 0 \/ val.err THEN [err |-> TRUE, clock |-> acc]
            ELSE fromComponents(Tail(kvs),
                                (SubSeq(kv, 1, i - 1) :> val.val) @@ acc)

\* Vector.FromString(str) on a clock that holds acc
FromString(str, acc) ==
    IF str = <<>> THEN [err |-> FALSE, clock |-> acc]
    ELSE fromComponents(Split(str, ","), acc)

\* ------------------------------------------------------------------- state

VARIABLES
    players,     \* m.players: id -> [Status, MatchID]
    servers,     \* m.servers: id -> [Address, Status, CurrentMatch, LastHB]
    queue,       \* m.queue
    matches,     \* m.matches: matchID -> <<p1, p2>>
    vc,          \* m.vc
    now,         \* time.Now(), in seconds
    dispatches,  \* bag of running dispatchAssignMatch goroutines
    loop,        \* position and locals of the runMatchLoop goroutine
    gameServers, \* the gameServer object of each Game Server process
    vectors,     \* the clocks.Vector objects: name -> [clock, mu]
    threads      \* the goroutines that call into the clocks package

vars == <<players, servers, queue, matches, vc, now, dispatches, loop,
          gameServers, vectors, threads>>

Init ==
    /\ players = EmptyMap
    /\ servers = EmptyMap
    /\ queue = <<>>
    /\ matches = EmptyMap
    /\ vc = EmptyMap
    /\ now = 0
    /\ dispatches = EmptyBag
    /\ loop = [pc |-> "ticker", now |-> 0, todo |-> {}, cur |-> "", tmp |-> 0]
    /\ gameServers = EmptyMap
    /\ vectors = EmptyMap
    /\ threads = EmptyMap

\* ---------------------------------------------------------------- QueuePlayer

\* QueuePlayerCode without the case for a player already in the queue
QueuePlayerCode_NoQueueCase(status) ==
    CASE status = playerInMatch -> "IN_MATCH"
      [] OTHER -> "OK"

\* QueuePlayerCode without the case for a player in a match
QueuePlayerCode_NoMatchCase(status) ==
    CASE status = playerInQueue -> "ALREADY_IN_QUEUE"
      [] OTHER -> "OK"

\* the switch on pi.Status: the response code of QueuePlayer
QueuePlayerCode(status) ==
    CASE status = playerInQueue -> "ALREADY_IN_QUEUE"
      [] status = playerInMatch -> "IN_MATCH"
      [] OTHER -> "OK"

QueuePlayerMessage(code) ==
    CASE code = "ALREADY_IN_QUEUE" -> "Ya en cola"
      [] code = "IN_MATCH" -> "Actualmente en partida"
      [] OTHER -> "Encolado correctamente"

\* m.players[playerID], after the record is created when it is missing
lookupOrCreate(playerID) ==
    IF playerID \in DOMAIN players THEN players[playerID]
    ELSE [Status |-> playerIdle, MatchID |-> ""]

\* the QueuePlayerResponse returned for this request in the current state
QueuePlayerResponse(playerID, clock) ==
    LET code == QueuePlayerCode(lookupOrCreate(playerID).Status)
    IN [code |-> code, message |-> QueuePlayerMessage(code),
        clock |-> toProto(increment(merge(vc, vcFromProto(clock)), selfID))]

QueuePlayer(playerID, clock) ==
    LET vc1 == increment(merge(vc, vcFromProto(clock)), selfID)
        pi == lookupOrCreate(playerID)
        code == QueuePlayerCode(pi.Status)
    IN
    /\ vc' = vc1
    /\ IF code = "OK"
       THEN /\ players' = (playerID :> [Status |-> playerInQueue, MatchID |-> ""]) @@ players
            /\ queue' = Append(queue, playerID)
       ELSE /\ players' = (playerID :> pi) @@ players
            /\ queue' = queue
    /\ UNCHANGED <<servers, matches, now, dispatches, loop>>

\* --------------------------------------------------------- UpdateServerStatus

\* the switch on req.GetNewStatus(): the status the record is left with
wireToServerState(newStatus, old) ==
    CASE newStatus = "AVAILABLE" -> serverAvailable
      [] newStatus = "BUSY" -> serverBusy
      [] newStatus = "DOWN" -> serverDown
      [] OTHER -> old

\* the ServerStatusUpdateResponse returned for this request in the current state
UpdateServerStatusResponse(clock) ==
    [code |-> "OK", clock |-> toProto(increment(merge(vc, vcFromProto(clock)), selfID))]

UpdateServerStatus(sid, newStatus, address, clock) ==
    LET vc1 == increment(merge(vc, vcFromProto(clock)), selfID)
        srv == IF sid \in DOMAIN servers THEN servers[sid]
               ELSE [Address |-> "", Status |-> serverUnknown, CurrentMatch |-> "",
                     LastHB |-> 0]
    IN
    /\ vc' = vc1
    /\ servers' = (sid :> [srv EXCEPT !.Address = address, !.LastHB = now,
                                     !.Status = wireToServerState(newStatus, srv.Status)])
                  @@ servers
    /\ UNCHANGED <<players, queue, matches, now, dispatches, loop>>

\* ------------------------------------------------------------ GetPlayerStatus

playerStateString(status) ==
    CASE status = playerIdle -> "IDLE"
      [] status = playerInQueue -> "IN_QUEUE"
      [] status = playerInMatch -> "IN_MATCH"
      [] OTHER -> ""

\* GetPlayerStatusResponse whose clock counts the request as an event
GetPlayerStatusResponse_Increments(playerID, clock) ==
    LET ok == playerID \in DOMAIN players
    IN [state |-> IF ok THEN playerStateString(players[playerID].Status) ELSE "UNKNOWN",
        matchId |-> IF ok THEN players[playerID].MatchID ELSE "",
        serverAddr |-> "",
        clock |-> toProto(increment(merge(vc, vcFromProto(clock)), selfID))]

\* the PlayerStatusResponse returned for this request in the current state
GetPlayerStatusResponse(playerID, clock) ==
    LET ok == playerID \in DOMAIN players
    IN [state |-> IF ok THEN playerStateString(players[playerID].Status) ELSE "UNKNOWN",
        matchId |-> IF ok THEN players[playerID].MatchID ELSE "",
        serverAddr |-> "",
        clock |-> toProto(merge(vc, vcFromProto(clock)))]

\* GetPlayerStatus that also increments the own component, as QueuePlayer does
GetPlayerStatus_Increments(playerID, clock) ==
    /\ vc' = increment(merge(vc, vcFromProto(clock)), selfID)
    /\ UNCHANGED <<players, servers, queue, matches, now, dispatches, loop>>

\* GetPlayerStatus that cannot take the lock while a dispatch is in flight
GetPlayerStatus_WaitsForDispatch(playerID, clock) ==
    /\ dispatches = EmptyBag
    /\ vc' = merge(vc, vcFromProto(clock))
    /\ UNCHANGED <<players, servers, queue, matches, now, dispatches, loop>>

GetPlayerStatus(playerID, clock) ==
    LET vc1 == merge(vc, vcFromProto(clock))
    IN
    /\ vc' = vc1
    /\ UNCHANGED <<players, servers, queue, matches, now, dispatches, loop>>

\* ------------------------------------------------------- AdminGetSystemStatus

\* the SystemStatusResponse returned in the current state
AdminGetSystemStatusResponse ==
    [servers |-> servers, queue |-> queue, clock |-> toProto(vc)]

\* read-only, under the read lock: nothing of the Matchmaker changes
AdminGetSystemStatus ==
    UNCHANGED vars

\* ----------------------------------------------------- AdminUpdateServerState

\* the switch on req.GetNewStatus(): the status the record is left with
forcedToServerState(forced, old) ==
    CASE forced = "FORCE_AVAILABLE" -> serverAvailable
      [] forced = "FORCE_DOWN" -> serverDown
      [] OTHER -> old

\* the AdminUpdateResponse returned for this request in the current state
AdminUpdateServerStateResponse(sid) ==
    IF sid \notin DOMAIN servers
    THEN [code |-> "NOT_FOUND"]   \* the VectorClock field is left unset
    ELSE [code |-> "OK", clock |-> toProto(increment(vc, selfID))]

\* AdminUpdateServerState that creates the record when the id is unknown, the
\* way UpdateServerStatus does
AdminUpdateServerState_Upsert(sid, forced, clock) ==
    LET srv == IF sid \in DOMAIN servers THEN servers[sid]
               ELSE [Address |-> "", Status |-> serverUnknown, CurrentMatch |-> "",
                     LastHB |-> 0]
    IN
    /\ vc' = increment(vc, selfID)
    /\ servers' = (sid :> [srv EXCEPT !.Status = forcedToServerState(forced, srv.Status)])
                  @@ servers
    /\ UNCHANGED <<players, queue, matches, now, dispatches, loop>>

AdminUpdateServerState(sid, forced, clock) ==
    IF sid \notin DOMAIN servers
    THEN UNCHANGED <<players, servers, queue, matches, vc, now, dispatches, loop>>
    ELSE LET vc1 == increment(vc, selfID) IN
         /\ vc' = vc1
         /\ servers' = [servers EXCEPT ![sid].Status =
                            forcedToServerState(forced, servers[sid].Status)]
         /\ UNCHANGED <<players, queue, matches, now, dispatches, loop>>

\* ------------------------------------------------------------ tryCreateMatch

availableServerCount(srvs) ==
    Cardinality({s \in DOMAIN srvs : srvs[s].Status = serverAvailable})

\* fmt.Sprintf("M%08x", rand.Int31()): any of the ids, whatever the match table holds
nextMatchID == MatchIds

\* one iteration of the loop body, on the tables st, for the server and the id drawn
pairOnce(st, sid, matchID) ==
    LET p1ID == st.queue[1]
        p2ID == st.queue[2]
        inMatch == [Status |-> playerInMatch, MatchID |-> matchID]
        vc1 == increment(st.vc, selfID)
    IN [players |-> [p \in DOMAIN st.players |->
                        IF p \in {p1ID, p2ID} THEN inMatch ELSE st.players[p]],
        servers |-> [st.servers EXCEPT ![sid].Status = serverBusy,
                                       ![sid].CurrentMatch = matchID],
        queue |-> SubSeq(st.queue, 3, Len(st.queue)),
        matches |-> (matchID :> <<p1ID, p2ID>>) @@ st.matches,
        vc |-> vc1,
        dispatches |-> st.dispatches (+)
            SetToBag({[srv |-> sid, matchID |-> matchID, players |-> <<p1ID, p2ID>>,
                       snapshot |-> clone(vc1)]})]

RECURSIVE tryCreateMatchFrom(_)

\* tryCreateMatchFrom that passes over a server whose CurrentMatch is still set
tryCreateMatchFrom_FreshOnly(st) ==
    LET free == {s \in DOMAIN st.servers : st.servers[s].Status = serverAvailable
                                            /\ st.servers[s].CurrentMatch = ""}
    IN IF Len(st.queue) >= 2 /\ free # {}
       THEN UNION {tryCreateMatchFrom(pairOnce(st, sid, matchID)) :
                     sid \in free, matchID \in nextMatchID}
       ELSE {st}

\* the tables the loop can end with; the range over m.servers picks any Available one
tryCreateMatchFrom(st) ==
    IF Len(st.queue) >= 2 /\ availableServerCount(st.servers) > 0
    THEN UNION {tryCreateMatchFrom(pairOnce(st, sid, matchID)) :
                  sid \in {s \in DOMAIN st.servers : st.servers[s].Status = serverAvailable},
                  matchID \in nextMatchID}
    ELSE {st}

tryCreateMatch ==
    /\ loop.pc = "ticker"
    /\ \E st \in tryCreateMatchFrom([players |-> players, servers |-> servers,
                                     queue |-> queue, matches |-> matches, vc |-> vc,
                                     dispatches |-> dispatches]) :
          /\ players' = st.players
          /\ servers' = st.servers
          /\ queue' = st.queue
          /\ matches' = st.matches
          /\ vc' = st.vc
          /\ dispatches' = st.dispatches
    /\ loop' = [loop EXCEPT !.pc = "detect"]
    /\ UNCHANGED now

\* ------------------------------------------------------ detectServerTimeouts
\* No lock is taken: each step below is one group of memory accesses of the
\* sweep, and the handlers run between them.

\* now := time.Now(), and the range over m.servers begins
detectBegin ==
    /\ loop.pc = "detect"
    /\ loop' = [loop EXCEPT !.pc = "range", !.now = now, !.todo = DOMAIN servers]
    /\ UNCHANGED <<players, servers, queue, matches, vc, now, dispatches>>

timedOut(srv, t) == t - srv.LastHB > serverHeartbeatTimeout

\* one iteration: the reads of srv.Status and srv.LastHB and the two tests
detectVisit(sid) ==
    /\ loop.pc = "range"
    /\ sid \in loop.todo
    /\ IF servers[sid].Status # serverDown /\ timedOut(servers[sid], loop.now)
       THEN loop' = [loop EXCEPT !.pc = "mark", !.cur = sid, !.todo = @ \ {sid}]
       ELSE loop' = [loop EXCEPT !.todo = @ \ {sid}]
    /\ UNCHANGED <<players, servers, queue, matches, vc, now, dispatches>>

\* srv.Status = serverDown
detectMark ==
    /\ loop.pc = "mark"
    /\ servers' = [servers EXCEPT ![loop.cur].Status = serverDown]
    /\ loop' = [loop EXCEPT !.pc = "load"]
    /\ UNCHANGED <<players, queue, matches, vc, now, dispatches>>

\* m.vc.increment(m.selfID), the read of vc[id]
detectLoad ==
    /\ loop.pc = "load"
    /\ loop' = [loop EXCEPT !.pc = "store", !.tmp = Get(vc, selfID)]
    /\ UNCHANGED <<players, servers, queue, matches, vc, now, dispatches>>

\* m.vc.increment(m.selfID), the write of vc[id]
detectStore ==
    /\ loop.pc = "store"
    /\ vc' = [k \in DOMAIN vc \cup {selfID} |-> IF k = selfID THEN loop.tmp + 1 ELSE vc[k]]
    /\ loop' = [loop EXCEPT !.pc = "range", !.cur = "", !.tmp = 0]
    /\ UNCHANGED <<players, servers, queue, matches, now, dispatches>>

\* the range is over: back to the ticker
detectReturn ==
    /\ loop.pc = "range"
    /\ loop.todo = {}
    /\ loop' = [loop EXCEPT !.pc = "ticker", !.now = 0]
    /\ UNCHANGED <<players, servers, queue, matches, vc, now, dispatches>>

\* -------------------------------------- dispatchAssignMatch, handleAssignFailure

Range(f) == {f[x] : x \in DOMAIN f}

\* requeueAtHead that puts the players behind the waiting ones
requeueAtHead_AtTail(pls, q) == q \o pls

\* append(players, m.queue...)
requeueAtHead(pls, q) == pls \o q

\* resetToInQueue without the loop over the players
resetToInQueue_NoReset(tbl, pls) == tbl

\* resetToInQueue that sends the players back to Idle
resetToInQueue_ToIdle(tbl, pls) ==
    [p \in DOMAIN tbl |->
        IF p \in Range(pls) THEN [Status |-> playerIdle, MatchID |-> ""] ELSE tbl[p]]

\* the loop over players: p.Status = playerInQueue; p.MatchID = ""
resetToInQueue(tbl, pls) ==
    [p \in DOMAIN tbl |->
        IF p \in Range(pls) THEN [Status |-> playerInQueue, MatchID |-> ""] ELSE tbl[p]]

handleAssignFailure(srv, pls) ==
    /\ servers' = [servers EXCEPT ![srv].Status = serverDown]
    /\ vc' = increment(vc, selfID)
    /\ queue' = requeueAtHead(pls, queue)
    /\ players' = resetToInQueue(players, pls)
    /\ UNCHANGED matches

\* how a dispatch ends: the Game Server answers OK, it answers BUSY (a reply,
\* with a nil error), or the dial or the call fails
AssignOutcomes == {"OK", "BUSY", "ERROR"}

\* err != nil after DialContext or AssignMatch; the reply itself is discarded
assignErr(outcome) == outcome = "ERROR"

\* one dispatch goroutine runs to its end: err is whether the dial or the RPC failed
dispatchAssignMatch(d, err) ==
    /\ d \in BagToSet(dispatches)
    /\ dispatches' = dispatches (-) SetToBag({d})
    /\ IF err
       THEN handleAssignFailure(d.srv, d.players)
       ELSE UNCHANGED <<players, servers, queue, matches, vc>>
    /\ UNCHANGED <<now, loop>>

\* ------------------------------------------------------------------- time

AdvanceTime(d) ==
    /\ now + d <= MaxTime
    /\ now' = now + d
    /\ UNCHANGED <<players, servers, queue, matches, vc, dispatches, loop>>

\* players are interchangeable, so a new player id is the first unused one of
\* the first n
Arriving(n) ==
    {PlayerOrder[i] : i \in {j \in 1..n :
        j <= Len(PlayerOrder) /\ \A k \in 1..(j - 1) : PlayerOrder[k] \in DOMAIN players}}

\* the step leaves the Matchmaker's own component within the cap
Capped(n) == Get(vc', selfID) <= n

\* Every handler with every input, the pairing loop and the dispatches, while no
\* time passes: the sweep runs and finds no server timed out.  What a sweep that
\* marks a server does to the tables (Status = Down, one increment) is what
\* FORCE_DOWN does, so the tables go through the same states as with time.
\* a step of the Matchmaker process alone: the Game Servers' objects and the
\* clocks of the clocks package stay as they are
onlyMatchmaker == UNCHANGED <<gameServers, vectors, threads>>

Next ==
    \/ \E p \in Arriving(MaxPlayers), c \in ReqClocks :
          QueuePlayer(p, c) /\ Capped(MaxClock) /\ onlyMatchmaker
    \/ \E p \in Arriving(MaxPlayers), c \in ReqClocks :
          GetPlayerStatus(p, c) /\ Capped(MaxClock) /\ onlyMatchmaker
    \/ \E s \in ServerIds, w \in WireStatuses, a \in Addresses, c \in ReqClocks :
          UpdateServerStatus(s, w, a, c) /\ Capped(MaxClock) /\ onlyMatchmaker
    \/ AdminGetSystemStatus /\ onlyMatchmaker
    \/ \E s \in ServerIds, f \in ForcedStatuses, c \in ReqClocks :
          AdminUpdateServerState(s, f, c) /\ Capped(MaxClock) /\ onlyMatchmaker
    \/ tryCreateMatch /\ Capped(MaxClock) /\ onlyMatchmaker
    \/ detectBegin /\ onlyMatchmaker
    \/ \E s \in ServerIds : detectVisit(s) /\ onlyMatchmaker
    \/ detectReturn /\ onlyMatchmaker
    \/ \E d \in BagToSet(dispatches), o \in AssignOutcomes :
          dispatchAssignMatch(d, assignErr(o)) /\ Capped(MaxClock) /\ onlyMatchmaker

Spec == Init /\ [][Next]_vars

\* The wall clock advances and the sweep marks servers, with two players and
\* requests that carry no clock.
NextTime ==
    \/ \E p \in Arriving(MaxPlayersTime) :
          QueuePlayer(p, EmptyMap) /\ Capped(MaxClockTime) /\ onlyMatchmaker
    \/ \E s \in ServerIds, w \in WireStatuses, a \in Addresses :
          UpdateServerStatus(s, w, a, EmptyMap) /\ Capped(MaxClockTime) /\ onlyMatchmaker
    \/ \E s \in ServerIds, f \in ForcedStatuses :
          AdminUpdateServerState(s, f, EmptyMap) /\ Capped(MaxClockTime) /\ onlyMatchmaker
    \/ tryCreateMatch /\ Capped(MaxClockTime) /\ onlyMatchmaker
    \/ detectBegin /\ onlyMatchmaker
    \/ \E s \in ServerIds : detectVisit(s) /\ onlyMatchmaker
    \/ detectMark /\ onlyMatchmaker
    \/ detectLoad /\ onlyMatchmaker
    \/ detectStore /\ Capped(MaxClockTime) /\ onlyMatchmaker
    \/ detectReturn /\ onlyMatchmaker
    \/ \E d \in BagToSet(dispatches), o \in AssignOutcomes :
          dispatchAssignMatch(d, assignErr(o)) /\ Capped(MaxClockTime) /\ onlyMatchmaker
    \/ \E d \in Deltas : AdvanceTime(d) /\ onlyMatchmaker

SpecTime == Init /\ [][NextTime]_vars

\* The pairing path with a loop that keeps running: runMatchLoop handles a tick
\* every matchCheckPeriod for as long as the process lives, so each step of the
\* loop that stays possible is eventually taken.  The handlers called from
\* outside and the dispatch outcomes are under no such obligation.
NextRetry ==
    \/ \E p \in Arriving(MaxPlayersRetry) :
          QueuePlayer(p, EmptyMap) /\ Capped(MaxClockRetry) /\ onlyMatchmaker
    \/ \E s \in ServerIds, w \in WireStatuses, a \in Addresses :
          UpdateServerStatus(s, w, a, EmptyMap) /\ Capped(MaxClockRetry) /\ onlyMatchmaker
    \/ tryCreateMatch /\ onlyMatchmaker
    \/ detectBegin /\ onlyMatchmaker
    \/ \E s \in ServerIds : detectVisit(s) /\ onlyMatchmaker
    \/ detectReturn /\ onlyMatchmaker
    \/ \E d \in BagToSet(dispatches), o \in AssignOutcomes :
          dispatchAssignMatch(d, assignErr(o)) /\ onlyMatchmaker

LoopFairness ==
    /\ WF_vars(tryCreateMatch /\ onlyMatchmaker)
    /\ WF_vars(detectBegin /\ onlyMatchmaker)
    /\ WF_vars(\E s \in ServerIds : detectVisit(s) /\ onlyMatchmaker)
    /\ WF_vars(detectReturn /\ onlyMatchmaker)

SpecRetry == Init /\ [][NextRetry]_vars /\ LoopFairness

\* The pairing path alone: players queue, servers report Available, the loop
\* pairs and the dispatches end either way.
NextPairs ==
    \/ \E p \in Arriving(MaxPlayersPairs) :
          QueuePlayer(p, EmptyMap) /\ Capped(MaxClockPairs) /\ onlyMatchmaker
    \/ \E s \in ServerIds, a \in Addresses :
          UpdateServerStatus(s, "AVAILABLE", a, EmptyMap) /\ Capped(MaxClockPairs) /\ onlyMatchmaker
    \/ tryCreateMatch /\ Capped(MaxClockPairs) /\ onlyMatchmaker
    \/ detectBegin /\ onlyMatchmaker
    \/ \E s \in ServerIds : detectVisit(s) /\ onlyMatchmaker
    \/ detectReturn /\ onlyMatchmaker
    \/ \E d \in BagToSet(dispatches), o \in AssignOutcomes :
          dispatchAssignMatch(d, assignErr(o)) /\ Capped(MaxClockPairs) /\ onlyMatchmaker

SpecPairs == Init /\ [][NextPairs]_vars

\* The two serialised forms of a clock, applied to sample clocks: ids of plain
\* letters and one that holds the separator of the string form, counters at
\* the ends of both integer widths.
ClockIds == {<<"a">>, <<"b">>, <<"a", "=">>}
ClockValues == {0, 1, 2 ^ (WireBits - 1) - 1, 2 ^ (WireBits - 1), 2 ^ (IntBits - 1) - 1}

InitClock ==
    /\ \E ids \in SUBSET ClockIds : vc \in [ids -> ClockValues]
    /\ players = EmptyMap
    /\ servers = EmptyMap
    /\ queue = <<>>
    /\ matches = EmptyMap
    /\ now = 0
    /\ dispatches = EmptyBag
    /\ loop = [pc |-> "ticker", now |-> 0, todo |-> {}, cur |-> "", tmp |-> 0]
    /\ gameServers = EmptyMap
    /\ vectors = EmptyMap
    /\ threads = EmptyMap

\* the clock goes over the wire and back
roundTripWire ==
    /\ vc' = vcFromProto(toProto(vc))
    /\ UNCHANGED <<players, servers, queue, matches, now, dispatches, loop>>

\* the clock is written as a string and read into a fresh clock
roundTripString ==
    /\ \E o \in KeyOrders(vc) : vc' = FromString(String(vc, o), EmptyMap).clock
    /\ UNCHANGED <<players, servers, queue, matches, now, dispatches, loop>>

NextClock ==
    \/ roundTripWire /\ onlyMatchmaker
    \/ roundTripString /\ onlyMatchmaker

SpecClock == InitClock /\ [][NextClock]_vars

\* ------------------------------------------------------------ the Game Server
\* gameServers[s] is the gameServer object of a process that has started:
\* currentStatus and currentMatch are its fields, playerIds the players of the
\* request whose match simulateMatch is running, handled the AssignMatch
\* requests it has answered and whose reply is on its way, up whether the
\* process has not exited.

statusAvailable == "DISPONIBLE"
statusBusy == "OCUPADO"
statusCrashed == "CAIDO"

mmVars == <<players, servers, queue, matches, vc, now, dispatches, loop>>

\* the NewStatus that a status of the Game Server is sent as
gsWireStatus(status) ==
    CASE status = statusAvailable -> "AVAILABLE"
      [] status = statusBusy -> "BUSY"
      [] status = statusCrashed -> "DOWN"

\* sendStatus: the Matchmaker handles the update, or the call fails and the
\* error is only logged
sendStatus(s, status) ==
    \/ \E a \in Addresses : UpdateServerStatus(s, gsWireStatus(status), a, EmptyMap)
    \/ UNCHANGED mmVars

\* newGameServer, called once by main, with the first registration
newGameServer(s) ==
    /\ s \notin DOMAIN gameServers
    /\ gameServers' = (s :> [currentStatus |-> statusAvailable, currentMatch |-> "",
                             playerIds |-> <<>>, handled |-> {}, up |-> TRUE])
                      @@ gameServers
    /\ sendStatus(s, statusAvailable)

\* AssignMatch that accepts whatever the status
AssignMatchCode_AlwaysOK(currentStatus) == "OK"

\* the StatusCode AssignMatch answers, decided under gs.mu
AssignMatchCode(currentStatus) ==
    IF currentStatus # statusAvailable THEN "BUSY" ELSE "OK"

\* the Game Server s handles the AssignMatch request of dispatch d
AssignMatch(s, d) ==
    /\ d \in BagToSet(dispatches)
    /\ d.srv = s
    /\ s \in DOMAIN gameServers
    /\ gameServers[s].up
    /\ d \notin {r.req : r \in gameServers[s].handled}
    /\ LET code == AssignMatchCode(gameServers[s].currentStatus)
       IN IF code = "OK"
          THEN /\ gameServers' =
                     [gameServers EXCEPT
                         ![s].currentStatus = statusBusy,
                         ![s].currentMatch = d.matchID,
                         ![s].playerIds = d.players,
                         ![s].handled = @ \cup {[req |-> d, code |-> code]}]
               /\ sendStatus(s, statusBusy)
          ELSE /\ gameServers' =
                     [gameServers EXCEPT
                         ![s].handled = @ \cup {[req |-> d, code |-> code]}]
               /\ UNCHANGED mmVars

\* the replies of the Game Servers to the request of dispatch d
repliesTo(d) ==
    IF d.srv \in DOMAIN gameServers
    THEN {r \in gameServers[d.srv].handled : r.req = d}
    ELSE {}

\* dispatchAssignMatch ends: with the reply the Game Server gave, or with an
\* error (the dial failed, the reply was lost, or the deadline passed first)
endDispatch(d, o) ==
    /\ dispatchAssignMatch(d, assignErr(o))
    /\ ~assignErr(o) => \E r \in repliesTo(d) : r.code = o /\ gameServers[d.srv].up
    /\ gameServers' =
          IF d.srv \in DOMAIN gameServers
          THEN [gameServers EXCEPT ![d.srv].handled = @ \ repliesTo(d)]
          ELSE gameServers

\* simulateMatch after its sleep: the process reports CAIDO and exits, or the
\* server is DISPONIBLE again and reports it
simulateMatch(s, crash) ==
    /\ s \in DOMAIN gameServers
    /\ gameServers[s].up
    /\ gameServers[s].currentStatus = statusBusy
    /\ IF crash
       THEN /\ gameServers' = [gameServers EXCEPT ![s].up = FALSE]
            /\ sendStatus(s, statusCrashed)
       ELSE /\ gameServers' = [gameServers EXCEPT ![s].currentStatus = statusAvailable,
                                                  ![s].currentMatch = "",
                                                  ![s].playerIds = <<>>]
            /\ sendStatus(s, statusAvailable)

onlyPrograms == UNCHANGED <<vectors, threads>>

\* The Matchmaker with its Game Servers: the only status updates are the ones
\* the Game Servers send, the wall clock advances, and an administrator may
\* force a server Available.
NextServers ==
    \/ \E p \in Arriving(MaxPlayersServers) :
          QueuePlayer(p, EmptyMap) /\ Capped(MaxClockServers) /\ onlyMatchmaker
    \/ \E s \in ServerIds :
          AdminUpdateServerState(s, "FORCE_AVAILABLE", EmptyMap)
             /\ Capped(MaxClockServers) /\ onlyMatchmaker
    \/ tryCreateMatch /\ Capped(MaxClockServers) /\ onlyMatchmaker
    \/ detectBegin /\ onlyMatchmaker
    \/ \E s \in ServerIds : detectVisit(s) /\ onlyMatchmaker
    \/ detectMark /\ onlyMatchmaker
    \/ detectLoad /\ onlyMatchmaker
    \/ detectStore /\ Capped(MaxClockServers) /\ onlyMatchmaker
    \/ detectReturn /\ onlyMatchmaker
    \/ \E d \in Deltas : AdvanceTime(d) /\ onlyMatchmaker
    \/ \E s \in ServerIds : newGameServer(s) /\ Capped(MaxClockServers) /\ onlyPrograms
    \/ \E s \in ServerIds, d \in BagToSet(dispatches) :
          AssignMatch(s, d) /\ Capped(MaxClockServers) /\ onlyPrograms
    \/ \E d \in BagToSet(dispatches), o \in AssignOutcomes :
          endDispatch(d, o) /\ Capped(MaxClockServers) /\ onlyPrograms
    \/ \E s \in ServerIds, crash \in BOOLEAN :
          simulateMatch(s, crash) /\ Capped(MaxClockServers) /\ onlyPrograms

SpecServers == Init /\ [][NextServers]_vars

\* ------------------------------------------------ clocks.Vector, concurrently
\* Two Vector objects and two goroutines that call Merge and HappensBefore on
\* them.  Both methods lock v.mu, then other.mu, run their loop and unlock both
\* on return; each lock is a step of its own.

VectorNames == {"a", "b"}
ThreadIds == {"t1", "t2"}
CounterIds == {"x", "y"}
VectorOps == {"Merge", "HappensBefore"}

\* the maps the sample clocks hold
SampleClocks == UNION {[ids -> 0..MaxCounter] : ids \in SUBSET CounterIds}

\* Merge that overwrites with the other clock's value
Merge_Overwrite(vclock, other) ==
    [id \in DOMAIN vclock \cup DOMAIN other |->
        IF id \in DOMAIN other THEN other[id] ELSE vclock[id]]

\* the loop of Vector.Merge: v.clock afterwards
Merge(vclock, other) ==
    [id \in DOMAIN vclock \cup DOMAIN other |->
        IF id \in DOMAIN other /\ (id \notin DOMAIN vclock \/ other[id] > vclock[id])
        THEN other[id] ELSE vclock[id]]

\* HappensBefore without the loop over the ids only the other clock has
HappensBefore_OwnIdsOnly(vclock, other) ==
    IF \E id \in DOMAIN vclock : vclock[id] > Get(other, id)
    THEN FALSE
    ELSE \E id \in DOMAIN vclock : vclock[id] < Get(other, id)

\* the two loops of Vector.HappensBefore: the value returned
HappensBefore(vclock, other) ==
    IF \E id \in DOMAIN vclock : vclock[id] > Get(other, id)
    THEN FALSE
    ELSE \/ \E id \in DOMAIN vclock : vclock[id] < Get(other, id)
         \/ \E id \in DOMAIN other : id \notin DOMAIN vclock /\ other[id] > 0

idleThread == [pc |-> "idle", op |-> "", v |-> "", other |-> "", ret |-> FALSE]

InitVectors ==
    /\ vectors \in [VectorNames -> [clock : SampleClocks, mu : {""}]]
    /\ threads = [t \in ThreadIds |-> idleThread]
    /\ players = EmptyMap
    /\ servers = EmptyMap
    /\ queue = <<>>
    /\ matches = EmptyMap
    /\ vc = EmptyMap
    /\ now = 0
    /\ dispatches = EmptyBag
    /\ loop = [pc |-> "ticker", now |-> 0, todo |-> {}, cur |-> "", tmp |-> 0]
    /\ gameServers = EmptyMap

onlyVectors ==
    UNCHANGED <<players, servers, queue, matches, vc, now, dispatches, loop, gameServers>>

\* goroutine t calls v.Merge(other) or v.HappensBefore(other)
callVector(t, op, v, other) ==
    /\ threads[t].pc = "idle"
    /\ threads' = [threads EXCEPT ![t] = [pc |-> "lockV", op |-> op, v |-> v,
                                          other |-> other, ret |-> FALSE]]
    /\ UNCHANGED vectors

\* v.mu.Lock()
lockV(t) ==
    /\ threads[t].pc = "lockV"
    /\ vectors[threads[t].v].mu = ""
    /\ vectors' = [vectors EXCEPT ![threads[t].v].mu = t]
    /\ threads' = [threads EXCEPT ![t].pc = "lockOther"]

\* other.mu.Lock()
lockOther(t) ==
    /\ threads[t].pc = "lockOther"
    /\ vectors[threads[t].other].mu = ""
    /\ vectors' = [vectors EXCEPT ![threads[t].other].mu = t]
    /\ threads' = [threads EXCEPT ![t].pc = "locked"]

\* the loops, and the deferred unlocks of both mutexes on return
returnVector(t) ==
    LET v == threads[t].v
        other == threads[t].other
        unlocked == [vectors EXCEPT ![v].mu = "", ![other].mu = ""]
    IN /\ threads[t].pc = "locked"
       /\ IF threads[t].op = "Merge"
          THEN /\ vectors' = [unlocked EXCEPT
                                 ![v].clock = Merge(vectors[v].clock, vectors[other].clock)]
               /\ threads' = [threads EXCEPT ![t] = [idleThread EXCEPT !.op = "Merge"]]
          ELSE /\ vectors' = unlocked
               /\ threads' = [threads EXCEPT ![t] =
                                 [idleThread EXCEPT
                                     !.op = "HappensBefore",
                                     !.ret = HappensBefore(vectors[v].clock,
                                                           vectors[other].clock)]]

NextVectors ==
    \/ \E t \in ThreadIds, op \in VectorOps, v \in VectorNames, other \in VectorNames :
          callVector(t, op, v, other) /\ onlyVectors
    \/ \E t \in ThreadIds : lockV(t) /\ onlyVectors
    \/ \E t \in ThreadIds : lockOther(t) /\ onlyVectors
    \/ \E t \in ThreadIds : returnVector(t) /\ onlyVectors

\* a goroutine that can run is scheduled: a call that can take its next lock
\* or return does so
VectorFairness ==
    \A t \in ThreadIds :
        /\ WF_vars(lockV(t) /\ onlyVectors)
        /\ WF_vars(lockOther(t) /\ onlyVectors)
        /\ WF_vars(returnVector(t) /\ onlyVectors)

SpecVectors == InitVectors /\ [][NextVectors]_vars /\ VectorFairness

\* ------------------------------------------------------------------ claims

\* C1: in every reachable state each player id occurs at most once in the queue.
C1_QueueHasNoDuplicates ==
    \A i, j \in 1..Len(queue) : i # j => queue[i] # queue[j]

\* a pair sent back by a failed dispatch stands in the queue ahead of a third
\* player, and a second QueuePlayer of each of them would be a duplicate
C1_Witness ==
    /\ Len(queue) >= 3
    /\ \E m \in DOMAIN matches : queue[1] = matches[m][1] /\ queue[2] = matches[m][2]

\* C2: for every known player, being in the queue and having status InQueue
\* are the same thing.
C2_InQueueIffQueued ==
    \A p \in DOMAIN players :
        (p \in Range(queue)) <=> (players[p].Status = playerInQueue)

\* both sides happen at once: a player sent back to the queue by a failed dispatch
\* (its match is still listed) and a player taken out of the queue by a pairing
C2_Witness ==
    /\ \E p \in DOMAIN players, m \in DOMAIN matches :
          /\ p \in Range(queue) /\ players[p].Status = playerInQueue
          /\ p \in Range(matches[m])
    /\ \E p \in DOMAIN players : p \notin Range(queue) /\ players[p].Status = playerInMatch

\* C3: every player whose status is InMatch has a non-empty matchId that is a
\* key of the match table, and that match lists the player.
C3_InMatchHasListedMatch ==
    \A p \in DOMAIN players :
        players[p].Status = playerInMatch =>
            /\ players[p].MatchID # ""
            /\ players[p].MatchID \in DOMAIN matches
            /\ p \in Range(matches[players[p].MatchID])

\* C4: a server is Busy exactly when its currentMatch is non-empty, and a
\* non-empty currentMatch is a key of the match table.
C4_BusyIffCurrentMatch ==
    \A s \in DOMAIN servers :
        /\ (servers[s].Status = serverBusy) <=> (servers[s].CurrentMatch # "")
        /\ servers[s].CurrentMatch # "" => servers[s].CurrentMatch \in DOMAIN matches

\* C5: UpdateServerStatus(s, Available) on a server whose currentMatch is a
\* match of the table clears currentMatch, removes the match and leaves both its
\* players Idle, with the queue unchanged.
C5_AvailableCompletesMatch ==
    [][\A s \in DOMAIN servers, a \in Addresses, c \in ReqClocks :
          (UpdateServerStatus(s, "AVAILABLE", a, c)
             /\ servers[s].CurrentMatch \in DOMAIN matches) =>
             /\ servers'[s].CurrentMatch = ""
             /\ servers[s].CurrentMatch \notin DOMAIN matches'
             /\ \A p \in Range(matches[servers[s].CurrentMatch]) :
                   players'[p].Status = playerIdle
             /\ queue' = queue]_vars

\* C6: UpdateServerStatus(s, Down) on a server that hosts a match clears
\* currentMatch and leaves every player of the match that was InMatch with status
\* InQueue and in the queue.
C6_DownRequeuesPlayers ==
    [][\A s \in DOMAIN servers, a \in Addresses, c \in ReqClocks :
          (UpdateServerStatus(s, "DOWN", a, c)
             /\ servers[s].CurrentMatch \in DOMAIN matches) =>
             /\ servers'[s].CurrentMatch = ""
             /\ \A p \in Range(matches[servers[s].CurrentMatch]) :
                   players[p].Status = playerInMatch =>
                      players'[p].Status = playerInQueue /\ p \in Range(queue')]_vars

\* C7: when a sweep ends every server whose heartbeat is older than the timeout
\* is Down, and a sweep changes the status only of a server whose heartbeat is
\* older than the timeout.  Ages are taken at the sweep's own reading of the time.
C7_SweepMarksExactlyTimedOut ==
    [][/\ detectReturn =>
             \A s \in DOMAIN servers' :
                timedOut(servers'[s], loop.now) => servers'[s].Status = serverDown
       /\ (detectMark /\ servers'[loop.cur].Status # servers[loop.cur].Status) =>
             timedOut(servers[loop.cur], loop.now)]_vars

\* C8: when the sweep marks a Busy server Down, the two players of its current
\* match are first in the queue with status InQueue, its currentMatch is
\* cleared and the match is gone from the match table.
C8_SweepRequeuesPlayers ==
    [][(detectMark /\ servers[loop.cur].Status = serverBusy
                   /\ servers[loop.cur].CurrentMatch \in DOMAIN matches) =>
          LET M == servers[loop.cur].CurrentMatch IN
          /\ Len(queue') >= 2
          /\ queue'[1] = matches[M][1]
          /\ queue'[2] = matches[M][2]
          /\ \A p \in Range(matches[M]) : players'[p].Status = playerInQueue
          /\ servers'[loop.cur].CurrentMatch = ""
          /\ M \notin DOMAIN matches']_vars

\* C9: a dispatch that fails leaves its server Down and its two players first in
\* the queue, in their order, ahead of everything that waited, InQueue and
\* with no matchId.
C9_FailureRequeuesAtHead ==
    [][\A d \in BagToSet(dispatches) :
          dispatchAssignMatch(d, TRUE) =>
             /\ servers'[d.srv].Status = serverDown
             /\ Len(queue') = Len(queue) + 2
             /\ queue'[1] = d.players[1]
             /\ queue'[2] = d.players[2]
             /\ SubSeq(queue', 3, Len(queue')) = queue
             /\ \A p \in Range(d.players) :
                   players'[p].Status = playerInQueue /\ players'[p].MatchID = ""]_vars

\* the failed pair is back at the head, ahead of a player that was waiting, and
\* the server it was sent to is Down
C9_Witness ==
    \E s \in DOMAIN servers :
        /\ servers[s].Status = serverDown
        /\ servers[s].CurrentMatch \in DOMAIN matches
        /\ Len(queue) >= 3
        /\ queue[1] = matches[servers[s].CurrentMatch][1]
        /\ queue[2] = matches[servers[s].CurrentMatch][2]
        /\ \A i \in 1..2 : players[queue[i]] = [Status |-> playerInQueue, MatchID |-> ""]

\* C10: once an assignment failure has been handled its match is no longer a
\* key of the match table, and a server marked Down has an empty currentMatch.
C10_FailureRemovesMatch ==
    [][\A d \in BagToSet(dispatches) :
          dispatchAssignMatch(d, TRUE) =>
             /\ d.matchID \notin DOMAIN matches'
             /\ servers'[d.srv].Status = serverDown =>
                   servers'[d.srv].CurrentMatch = ""]_vars

\* C11: a dispatch answered BUSY by the Game Server is handled as a failed
\* assignment: both players are first in the queue with status InQueue, the
\* match is removed, and the server is not marked Down.
C11_BusyReplyRequeues ==
    [][\A d \in BagToSet(dispatches) :
          dispatchAssignMatch(d, assignErr("BUSY")) =>
             /\ Len(queue') >= 2
             /\ queue'[1] = d.players[1]
             /\ queue'[2] = d.players[2]
             /\ \A p \in Range(d.players) : players'[p].Status = playerInQueue
             /\ d.matchID \notin DOMAIN matches'
             /\ servers'[d.srv].Status = servers[d.srv].Status]_vars

\* players p and q came back to the queue from a failed dispatch: a match of the
\* table lists them and both wait with status InQueue
Requeued(p, q) ==
    /\ \E m \in DOMAIN matches : matches[m] = <<p, q>>
    /\ {p, q} \subseteq Range(queue)
    /\ {p, q} \subseteq DOMAIN players
    /\ players[p].Status = playerInQueue /\ players[q].Status = playerInQueue

SomeAvailable == availableServerCount(servers) > 0

BothInMatch(p, q) ==
    /\ {p, q} \subseteq DOMAIN players
    /\ players[p].Status = playerInMatch /\ players[q].Status = playerInMatch

\* C12: with the pairing loop running fairly, two players requeued by a failed
\* dispatch become InMatch again once a server is Available, unless every
\* server stops being Available first.
C12_RequeuedArePairedAgain ==
    \A i, j \in 1..MaxPlayersRetry :
        (Requeued(PlayerOrder[i], PlayerOrder[j]) /\ SomeAvailable)
            ~> (BothInMatch(PlayerOrder[i], PlayerOrder[j]) \/ ~SomeAvailable)

\* a pair that two matches list, the later one current: it was paired, sent back
\* by the failure and paired again
C12_Witness ==
    \E m1, m2 \in DOMAIN matches, s \in DOMAIN servers :
        /\ m1 # m2 /\ matches[m1] = matches[m2]
        /\ servers[s].Status = serverBusy /\ servers[s].CurrentMatch = m2
        /\ \A p \in Range(matches[m2]) :
              players[p] = [Status |-> playerInMatch, MatchID |-> m2]

\* C13: FORCE_AVAILABLE on a Busy server is answered Conflict and leaves the
\* server, the queue, the players and the match table as they were.
C13_ForceAvailableOnBusyConflicts ==
    [][\A s \in DOMAIN servers, c \in ReqClocks :
          (AdminUpdateServerState(s, "FORCE_AVAILABLE", c)
             /\ servers[s].Status = serverBusy) =>
             /\ AdminUpdateServerStateResponse(s).code = "CONFLICT"
             /\ servers'[s].Status = serverBusy
             /\ servers'[s].CurrentMatch = servers[s].CurrentMatch
             /\ UNCHANGED <<queue, players, matches>>]_vars

\* C14: FORCE_DOWN on a Busy server that hosts a match sets it Down, clears
\* its currentMatch and leaves the match's players in the queue with status
\* InQueue.
C14_ForceDownRequeuesPlayers ==
    [][\A s \in DOMAIN servers, c \in ReqClocks :
          (AdminUpdateServerState(s, "FORCE_DOWN", c)
             /\ servers[s].Status = serverBusy
             /\ servers[s].CurrentMatch \in DOMAIN matches) =>
             /\ servers'[s].Status = serverDown
             /\ servers'[s].CurrentMatch = ""
             /\ \A p \in Range(matches[servers[s].CurrentMatch]) :
                   players'[p].Status = playerInQueue /\ p \in Range(queue')]_vars

\* C15: AdminUpdateServerState for an id that is not in the registry is
\* answered NOT_FOUND, creates no record and changes neither queue, players,
\* servers nor matches.
C15_UnknownServerNotFound ==
    /\ [](\A s \in ServerIds \ DOMAIN servers :
             AdminUpdateServerStateResponse(s).code = "NOT_FOUND")
    /\ [][\A s \in ServerIds \ DOMAIN servers, f \in ForcedStatuses, c \in ReqClocks :
             AdminUpdateServerState(s, f, c) =>
                /\ s \notin DOMAIN servers'
                /\ UNCHANGED <<queue, players, servers, matches>>]_vars

\* an unknown id can be asked about while there are tables to disturb
C15_Witness ==
    /\ \E s \in ServerIds : s \notin DOMAIN servers
                            /\ AdminUpdateServerStateResponse(s).code = "NOT_FOUND"
    /\ servers # EmptyMap /\ queue # <<>> /\ matches # EmptyMap

\* C16: the Matchmaker's own clock component never decreases, and it is
\* strictly greater after every step that changes a table under the lock and
\* after the increment of a sweep that marked a server.
C16_OwnClockGrows ==
    [][/\ Get(vc', selfID) >= Get(vc, selfID)
       /\ (<<players, servers, queue, matches>>' # <<players, servers, queue, matches>>
             /\ ~detectMark) => Get(vc', selfID) > Get(vc, selfID)
       /\ detectStore => Get(vc', selfID) > Get(vc, selfID)]_vars

\* resp.GetVectorClock().GetCounters(): an unset clock reads as the empty map
respClock(resp) == IF "clock" \in DOMAIN resp THEN resp.clock ELSE EmptyMap

\* a <= b in every component, absent ids read as zero
ClockLeq(a, b) == \A k \in DOMAIN a : a[k] <= Get(b, k)

\* C17: for every RPC that carries a request clock, the clock in the response
\* is at least the request's clock in every component.
C17_ResponseDominatesRequest ==
    \A c \in ReqClocks :
        /\ \A i \in 1..MaxPlayers :
              /\ ClockLeq(c, respClock(QueuePlayerResponse(PlayerOrder[i], c)))
              /\ ClockLeq(c, respClock(GetPlayerStatusResponse(PlayerOrder[i], c)))
        /\ ClockLeq(c, respClock(UpdateServerStatusResponse(c)))
        /\ \A s \in ServerIds : ClockLeq(c, respClock(AdminUpdateServerStateResponse(s)))

\* C18: every response of every RPC, the rejections included, carries a clock,
\* and that clock is the Matchmaker's clock as the handler leaves it.
C18_EveryResponseCarriesClock ==
    /\ [](/\ \A i \in 1..MaxPlayers, c \in ReqClocks :
                /\ "clock" \in DOMAIN QueuePlayerResponse(PlayerOrder[i], c)
                /\ "clock" \in DOMAIN GetPlayerStatusResponse(PlayerOrder[i], c)
          /\ \A c \in ReqClocks : "clock" \in DOMAIN UpdateServerStatusResponse(c)
          /\ "clock" \in DOMAIN AdminGetSystemStatusResponse
          /\ AdminGetSystemStatusResponse.clock = toProto(vc)
          /\ \A s \in ServerIds : "clock" \in DOMAIN AdminUpdateServerStateResponse(s))
    /\ [][/\ \A i \in 1..MaxPlayers, c \in ReqClocks :
                /\ QueuePlayer(PlayerOrder[i], c) =>
                      respClock(QueuePlayerResponse(PlayerOrder[i], c)) = toProto(vc')
                /\ GetPlayerStatus(PlayerOrder[i], c) =>
                      respClock(GetPlayerStatusResponse(PlayerOrder[i], c)) = toProto(vc')
          /\ \A s \in ServerIds, w \in WireStatuses, a \in Addresses, c \in ReqClocks :
                UpdateServerStatus(s, w, a, c) =>
                   respClock(UpdateServerStatusResponse(c)) = toProto(vc')
          /\ \A s \in ServerIds, f \in ForcedStatuses, c \in ReqClocks :
                AdminUpdateServerState(s, f, c) =>
                   respClock(AdminUpdateServerStateResponse(s)) = toProto(vc')]_vars

\* the place of a player in the order of the accepted QueuePlayer calls: ids are
\* handed out in PlayerOrder, and a player is accepted by QueuePlayer only once
enqueueRank(p) == CHOOSE i \in 1..Len(PlayerOrder) : PlayerOrder[i] = p

\* the two players at the head of q were enqueued before everyone behind them
HeadIsOldest(q) ==
    \A k \in 3..Len(q) :
        enqueueRank(q[1]) < enqueueRank(q[k]) /\ enqueueRank(q[2]) < enqueueRank(q[k])

\* C19: whatever dispatches failed before, and in whatever order, each pairing
\* step extracts the two players of the queue with the oldest enqueue times.
C19_PairingTakesOldest ==
    [][tryCreateMatch =>
          \A j \in 1..((Len(queue) - Len(queue')) \div 2) :
              HeadIsOldest(SubSeq(queue, 2 * j - 1, Len(queue)))]_vars

\* C20: QueuePlayer for a player that is InQueue is answered ALREADY_IN_QUEUE,
\* for one that is InMatch IN_MATCH, with a message; queue, players, servers
\* and matches stay as they were and the Matchmaker's own clock component advances.
C20_RejectedQueuePlayerChangesNothing ==
    [][\A p \in DOMAIN players, c \in ReqClocks :
          (players[p].Status \in {playerInQueue, playerInMatch} /\ QueuePlayer(p, c)) =>
             /\ QueuePlayerResponse(p, c).code =
                   (IF players[p].Status = playerInQueue THEN "ALREADY_IN_QUEUE"
                                                          ELSE "IN_MATCH")
             /\ QueuePlayerResponse(p, c).message # ""
             /\ UNCHANGED <<queue, players, servers, matches>>
             /\ Get(vc', selfID) > Get(vc, selfID)]_vars

\* a rejected QueuePlayer has been handled for a player in a match: the clock
\* counts one step more than the two enqueues, the registration and the pairing
C20_Witness ==
    /\ DOMAIN players = {"p1", "p2"} /\ DOMAIN servers = {"G1"}
    /\ \A p \in DOMAIN players : players[p].Status = playerInMatch
    /\ servers["G1"].Status = serverBusy /\ servers["G1"].CurrentMatch \in DOMAIN matches
    /\ dispatches # EmptyBag
    /\ vc = (selfID :> 5)
    /\ \E d \in BagToSet(dispatches) : Get(d.snapshot, selfID) = 4

\* C21: GetPlayerStatus does not increment the Matchmaker's own component (it is
\* left at the larger of its value and the request's), changes neither queue,
\* players, servers nor matches, and for an unknown id answers UNKNOWN and
\* creates no player record.
C21_GetPlayerStatusReadsOnly ==
    /\ [](\A i \in 1..MaxPlayers, c \in ReqClocks :
             PlayerOrder[i] \notin DOMAIN players =>
                GetPlayerStatusResponse(PlayerOrder[i], c).state = "UNKNOWN")
    /\ [][\A i \in 1..MaxPlayers, c \in ReqClocks :
             GetPlayerStatus(PlayerOrder[i], c) =>
                /\ UNCHANGED <<queue, players, servers, matches>>
                /\ Get(vc', selfID) =
                      (IF Get(c, selfID) > Get(vc, selfID) THEN Get(c, selfID)
                                                           ELSE Get(vc, selfID))]_vars

\* only a GetPlayerStatus that carried a clock leaves a foreign component in the
\* clock of a Matchmaker that knows no player and no server
C21_Witness ==
    /\ players = EmptyMap /\ servers = EmptyMap
    /\ Get(vc, "Player7") = 1 /\ Get(vc, selfID) = 2

\* C22: GetPlayerStatus for a player that is InMatch returns its matchId and
\* the address of the server that hosts the match; for any other player the
\* returned matchId is empty.
C22_InMatchStatusNamesServer ==
    \A i \in 1..MaxPlayers, c \in ReqClocks :
        LET p == PlayerOrder[i]
            resp == GetPlayerStatusResponse(p, c)
        IN IF p \in DOMAIN players /\ players[p].Status = playerInMatch
           THEN /\ resp.matchId = players[p].MatchID
                /\ \E s \in DOMAIN servers :
                      /\ servers[s].CurrentMatch = players[p].MatchID
                      /\ resp.serverAddr = servers[s].Address
           ELSE resp.matchId = ""

\* C23: once QueuePlayer(p) has been answered OK (p then has a record, and only
\* that creates one), every later GetPlayerStatus(p) answers IN_QUEUE or
\* IN_MATCH, never UNKNOWN and never IDLE: the record is never removed and
\* never goes back to Idle.
C23_ReadYourWrites ==
    /\ [](\A p \in DOMAIN players, c \in ReqClocks :
             GetPlayerStatusResponse(p, c).state \in {"IN_QUEUE", "IN_MATCH"})
    /\ [][\A p \in DOMAIN players : p \in DOMAIN players']_vars

\* a player that was paired and sent back answers IN_QUEUE while a paired one
\* answers IN_MATCH
C23_Witness ==
    /\ \E p \in DOMAIN players, m \in DOMAIN matches :
          /\ p \in Range(matches[m]) /\ p \in Range(queue)
          /\ GetPlayerStatusResponse(p, EmptyMap).state = "IN_QUEUE"
    /\ \E p \in DOMAIN players : GetPlayerStatusResponse(p, EmptyMap).state = "IN_MATCH"

\* the clock a GetPlayerStatus(p) answers with when it is sent the Matchmaker's
\* clock of this state and is the next request handled
echoClock(p) == respClock(GetPlayerStatusResponse(p, toProto(vc)))

C25_ClockRoundTrips ==
    /\ vcFromProto(toProto(vc)) = vc
    /\ \A o \in KeyOrders(vc) :
          FromString(String(vc, o), EmptyMap) = [err |-> FALSE, clock |-> vc]

\* the sweep has written srv.Status and has not yet written its increment of
\* the clock: it is in the middle of its mutation
sweepWriting == loop.pc \in {"load", "store"}

\* C26: every write to the queue, the player table, the server registry, the
\* match table or the clock happens under the one write lock, so two mutations
\* never overlap: while the sweep is in the middle of its mutation, the only
\* write to the shared state is the sweep's own.
C26_MutationsNeverOverlap ==
    [][(sweepWriting /\ ~detectStore) =>
          UNCHANGED <<players, servers, queue, matches, vc>>]_vars

\* the dispatches a step has issued
issued == BagToSet(dispatches') \ BagToSet(dispatches)

\* C27: the AssignMatch call never runs under the state lock.  The pairing step
\* commits its changes and the clock snapshot and only issues the call; while a
\* call is in flight the inbound handlers can take the lock; the outcome of a
\* call is applied in a later step of its own.
C27_DispatchRunsUnlocked ==
    /\ [](dispatches # EmptyBag =>
             /\ \A i \in 1..MaxPlayers, c \in ReqClocks :
                   /\ ENABLED QueuePlayer(PlayerOrder[i], c)
                   /\ ENABLED GetPlayerStatus(PlayerOrder[i], c)
             /\ \A s \in ServerIds, w \in WireStatuses, a \in Addresses :
                   ENABLED UpdateServerStatus(s, w, a, EmptyMap))
    /\ [][tryCreateMatch =>
             /\ dispatches \sqsubseteq dispatches'
             /\ \A d \in issued :
                   /\ servers'[d.srv] = [servers[d.srv] EXCEPT !.Status = serverBusy,
                                                              !.CurrentMatch = d.matchID]
                   /\ d.matchID \in DOMAIN matches'
                   /\ ClockLeq(d.snapshot, vc')
             /\ \A s \in DOMAIN servers :
                   servers'[s].Status = serverDown => servers[s].Status = serverDown]_vars
    /\ [][\A d \in BagToSet(dispatches) :
             dispatchAssignMatch(d, TRUE) =>
                /\ ~tryCreateMatch
                /\ servers'[d.srv].Status = serverDown]_vars

\* a call is in flight and a handler has merged a request clock since its
\* snapshot was taken
C27_Witness ==
    \E d \in BagToSet(dispatches) :
       /\ "Player7" \notin DOMAIN d.snapshot
       /\ "Player7" \in DOMAIN vc
       /\ servers[d.srv].Status = serverBusy

\* the status of a player in a table: a player without a record is the Idle
\* record that lookupOrCreate makes for it
statusIn(tbl, p) == IF p \in DOMAIN tbl THEN tbl[p].Status ELSE playerIdle

\* C28: a player's status changes only from Idle to InQueue in QueuePlayer,
\* from InQueue to InMatch in the pairing step, from InMatch to Idle when a
\* server reports, and from InMatch to InQueue when a dispatch fails or a server
\* goes Down.
C28_PlayerTransitions ==
    [][\A p \in DOMAIN players' :
          LET old == statusIn(players, p)
              new == statusIn(players', p)
          IN old # new =>
                \/ /\ old = playerIdle /\ new = playerInQueue
                   /\ \E c \in ReqClocks : QueuePlayer(p, c)
                \/ /\ old = playerInQueue /\ new = playerInMatch
                   /\ tryCreateMatch
                \/ /\ old = playerInMatch /\ new = playerIdle
                   /\ \E s \in ServerIds, w \in WireStatuses, a \in Addresses, c \in ReqClocks :
                         UpdateServerStatus(s, w, a, c)
                \/ /\ old = playerInMatch /\ new = playerInQueue
                   /\ \/ \E d \in BagToSet(dispatches) : dispatchAssignMatch(d, TRUE)
                      \/ \E s \in DOMAIN servers :
                            servers[s].Status # serverDown /\ servers'[s].Status = serverDown]_vars

\* a pair has gone Idle, InQueue, InMatch and back to InQueue while another
\* player is InMatch
C28_Witness ==
    /\ \E p, q \in DOMAIN players : Requeued(p, q)
    /\ \E r \in DOMAIN players : players[r].Status = playerInMatch

\* the status of a server in a registry: a server without a record is Unknown,
\* as the record UpdateServerStatus makes for it
serverStatusIn(tbl, s) == IF s \in DOMAIN tbl THEN tbl[s].Status ELSE serverUnknown

\* C29: a server's status changes only from Unknown to Available, from
\* Available to Busy, from Busy to Available, from any state to Down and from
\* Down to Available, and no step leaves a registered server Unknown.
C29_ServerTransitions ==
    [][\A s \in DOMAIN servers' :
          LET old == serverStatusIn(servers, s)
              new == serverStatusIn(servers', s)
          IN /\ old # new =>
                   \/ old = serverUnknown /\ new = serverAvailable
                   \/ old = serverAvailable /\ new = serverBusy
                   \/ old = serverBusy /\ new = serverAvailable
                   \/ new = serverDown
                   \/ old = serverDown /\ new = serverAvailable
             /\ new # serverUnknown]_vars

\* C30: a pairing step on queue [p1, p2, ...] and an Available server s takes
\* p1 and p2 off the queue, makes both InMatch with one new matchId M, makes s
\* Busy with currentMatch M, records M with players [p1, p2] and issues exactly
\* one dispatch (s, M, [p1, p2]) whose clock snapshot holds the step's
\* increment; it touches no server that was not Available.  A tick runs one
\* such step for every pair it takes.
C30_PairingStep ==
    [][tryCreateMatch =>
          LET n == (Len(queue) - Len(queue')) \div 2
          IN /\ queue' = SubSeq(queue, 2 * n + 1, Len(queue))
             /\ BagCardinality(dispatches') = BagCardinality(dispatches) + n
             /\ Cardinality(issued) = n
             /\ \A j \in 1..n :
                   LET p1 == queue[2 * j - 1]
                       p2 == queue[2 * j]
                   IN \E d \in issued :
                         /\ d.players = <<p1, p2>>
                         /\ d.matchID \notin DOMAIN matches
                         /\ \A e \in issued : e.matchID = d.matchID => e = d
                         /\ servers[d.srv].Status = serverAvailable
                         /\ servers'[d.srv].Status = serverBusy
                         /\ servers'[d.srv].CurrentMatch = d.matchID
                         /\ players'[p1] = [Status |-> playerInMatch, MatchID |-> d.matchID]
                         /\ players'[p2] = [Status |-> playerInMatch, MatchID |-> d.matchID]
                         /\ matches'[d.matchID] = <<p1, p2>>
                         /\ Get(d.snapshot, selfID) = Get(vc, selfID) + j
             /\ \A s \in DOMAIN servers :
                   servers'[s] # servers[s] => servers[s].Status = serverAvailable]_vars

\* numeric maximum
Max(x, y) == IF x > y THEN x ELSE y

\* C31: after v.Merge(o) every component of v is the larger of its old value
\* and o's, absent ids read as zero, so no component of v is lowered; o is
\* left as it was; merging o again changes nothing, and merging in either
\* direction gives the same map.  The same holds of the Matchmaker's merge.
C31_MergeIsComponentwiseMax ==
    [][\A t \in ThreadIds :
          (returnVector(t) /\ threads[t].op = "Merge") =>
             LET v == vectors[threads[t].v].clock
                 o == vectors[threads[t].other].clock
                 after == vectors'[threads[t].v].clock
             IN /\ \A id \in CounterIds :
                      /\ Get(after, id) = Max(Get(v, id), Get(o, id))
                      /\ Get(after, id) >= Get(v, id)
                /\ vectors'[threads[t].other].clock = o
                /\ Merge(after, o) = after
                /\ Merge(v, o) = Merge(o, v)
                /\ merge(v, o) = after
                /\ merge(after, o) = after
                /\ merge(o, v) = after]_vars

\* a Merge has returned with its clock above the other in one component and
\* equal to it, after taking its value, in the other
C31_Witness ==
    \E t \in ThreadIds :
        /\ threads[t].pc = "idle" /\ threads[t].op = "Merge"
        /\ Get(vectors["a"].clock, "x") = 2 /\ Get(vectors["b"].clock, "x") = 1
        /\ "y" \in DOMAIN vectors["a"].clock /\ "y" \in DOMAIN vectors["b"].clock
        /\ vectors["a"].clock["y"] = 1 /\ vectors["b"].clock["y"] = 1

\* a <= b in every component and a < b in one, absent ids read as zero
StrictlyBelow(a, b) ==
    /\ \A id \in CounterIds : Get(a, id) <= Get(b, id)
    /\ \E id \in CounterIds : Get(a, id) < Get(b, id)

\* C32: a.HappensBefore(b) returns true exactly when a[id] <= b[id] for every
\* id and a[id] < b[id] for some id, absent ids read as zero; the relation it
\* computes is irreflexive, asymmetric and transitive.
C32_HappensBeforeIsStrictOrder ==
    /\ [](\A n, m \in VectorNames :
             LET a == vectors[n].clock
                 b == vectors[m].clock
             IN /\ HappensBefore(a, b) <=> StrictlyBelow(a, b)
                /\ ~HappensBefore(a, a)
                /\ HappensBefore(a, b) => ~HappensBefore(b, a)
                /\ \A c \in SampleClocks :
                      (HappensBefore(a, b) /\ HappensBefore(b, c)) => HappensBefore(a, c))
    /\ [][\A t \in ThreadIds :
             (returnVector(t) /\ threads[t].op = "HappensBefore") =>
                threads'[t].ret = StrictlyBelow(vectors[threads[t].v].clock,
                                                vectors[threads[t].other].clock)]_vars

\* a call has returned true for a clock that lacks an id the other one counts
C32_Witness ==
    \E t \in ThreadIds :
        /\ threads[t].pc = "idle" /\ threads[t].op = "HappensBefore" /\ threads[t].ret
        /\ \E n, m \in VectorNames :
              /\ DOMAIN vectors[n].clock = {"x"} /\ DOMAIN vectors[m].clock = {"x", "y"}
              /\ vectors[n].clock["x"] = vectors[m].clock["x"]
              /\ vectors[m].clock["y"] > 0

\* C36: every call of Merge and of HappensBefore returns, also when two
\* goroutines call a.Merge(b) and b.Merge(a) at once and when a clock is its own
\* argument.
C36_EveryVectorCallReturns ==
    \A t \in ThreadIds : (threads[t].pc # "idle") ~> (threads[t].pc = "idle")

\* the server ids in ascending order, and the place of an id in it
ServerOrder == <<"G1", "G2">>
serverRank(s) == CHOOSE i \in 1..Len(ServerOrder) : ServerOrder[i] = s

\* C33: when several servers are Available the pairing step takes the one with
\* the smallest serverId: the first dispatch of a tick goes to the smallest
\* Available server.
C33_SmallestServerIsChosen ==
    [][tryCreateMatch =>
          \A d \in issued :
             Get(d.snapshot, selfID) = Get(vc, selfID) + 1 =>
                \A s \in DOMAIN servers :
                   servers[s].Status = serverAvailable =>
                      serverRank(d.srv) <= serverRank(s)]_vars

\* the matchId in a player's record
liveMatchOf(p) == players[p].MatchID

\* C34: the matchId a pairing step chooses is not a key of the match table at
\* that moment and not the id of another pair of the same tick, so no record
\* of the table is overwritten and players of different matches never share a
\* matchId.
C34_MatchIdIsFresh ==
    /\ [][tryCreateMatch =>
             /\ \A d \in issued : d.matchID \notin DOMAIN matches
             /\ \A d, e \in issued : d.matchID = e.matchID => d = e
             /\ \A m \in DOMAIN matches : matches'[m] = matches[m]]_vars
    /\ [](\A p, q \in DOMAIN players :
             (players[p].Status = playerInMatch /\ players[q].Status = playerInMatch
                /\ liveMatchOf(p) = liveMatchOf(q) /\ liveMatchOf(p) \in DOMAIN matches) =>
                {p, q} \subseteq Range(matches[liveMatchOf(p)]))

\* C37: every player that is InMatch with matchId M has a server whose
\* currentMatch is M and whose status is not Down.
C37_InMatchHasLiveServer ==
    \A p \in DOMAIN players :
        players[p].Status = playerInMatch =>
            \E s \in DOMAIN servers :
                /\ servers[s].CurrentMatch = players[p].MatchID
                /\ servers[s].Status # serverDown

\* C38: a dispatch failure for match M on server s that is handled after s
\* has reported Available and been given a newer match leaves s, that match
\* and its players as they are.
C38_LateFailureSparesNewerMatch ==
    [][\A d \in BagToSet(dispatches) :
          (dispatchAssignMatch(d, TRUE)
             /\ servers[d.srv].Status = serverBusy
             /\ servers[d.srv].CurrentMatch # d.matchID
             /\ servers[d.srv].CurrentMatch \in DOMAIN matches) =>
             /\ servers'[d.srv] = servers[d.srv]
             /\ matches'[servers[d.srv].CurrentMatch] = matches[servers[d.srv].CurrentMatch]
             /\ \A p \in Range(matches[servers[d.srv].CurrentMatch]) :
                   players'[p] = players[p]]_vars

\* C35: a Game Server accepts an AssignMatch only when its status is
\* Available: a call received in any other status is answered BUSY and leaves
\* status and current match as they were, an accepted call makes the server
\* Busy with that match, and the status leaves Busy only when the running match
\* ends, so at most one call is answered OK until then.
C35_AssignMatchOnlyWhenAvailable ==
    [][/\ \A s \in DOMAIN gameServers, d \in BagToSet(dispatches) :
             AssignMatch(s, d) =>
                LET answered == gameServers'[s].handled \ gameServers[s].handled
                IN IF gameServers[s].currentStatus = statusAvailable
                   THEN /\ answered = {[req |-> d, code |-> "OK"]}
                        /\ gameServers'[s].currentStatus = statusBusy
                        /\ gameServers'[s].currentMatch = d.matchID
                   ELSE /\ answered = {[req |-> d, code |-> "BUSY"]}
                        /\ gameServers'[s].currentStatus = gameServers[s].currentStatus
                        /\ gameServers'[s].currentMatch = gameServers[s].currentMatch
       /\ \A s \in DOMAIN gameServers :
             (gameServers[s].currentStatus = statusBusy
                /\ gameServers'[s].currentStatus # statusBusy) =>
                simulateMatch(s, FALSE)]_vars

\* a Game Server that runs one match has answered BUSY to the request for
\* another
C35_Witness ==
    \E s \in DOMAIN gameServers :
        /\ gameServers[s].currentStatus = statusBusy
        /\ \E r \in gameServers[s].handled :
              r.code = "BUSY" /\ r.req.matchID # gameServers[s].currentMatch

\* C39: the heartbeat sweep never marks Down a Game Server whose process is
\* alive, however long the server has sent nothing.
C39_LiveServerNeverTimedOut ==
    [][detectMark =>
          ~(loop.cur \in DOMAIN gameServers /\ gameServers[loop.cur].up)]_vars

\* the players of the match a Game Server is running
runningPlayers(s) ==
    IF gameServers[s].up /\ gameServers[s].currentStatus = statusBusy
    THEN Range(gameServers[s].playerIds) ELSE {}

\* C40: a player of a match that a Game Server has accepted and is running is
\* neither in the Matchmaker's queue nor in a match that another Game Server is
\* running.
C40_RunningPlayersAreNowhereElse ==
    \A s \in DOMAIN gameServers :
        \A p \in runningPlayers(s) :
            /\ p \notin Range(queue)
            /\ \A s2 \in DOMAIN gameServers \ {s} : p \notin runningPlayers(s2)

====
